---- MODULE Spec2Model ----
(***************************************************************************)
(* A model of jsonfind (src/jsonfind/jsonfind.py): the comparator library, *)
(* the generator-based tree walkers of class JsonFind, the first-match     *)
(* entry points and the path codecs.                                       *)
(*                                                                         *)
(* Python values are records [t, v, id]:                                   *)
(*   t = "int"  : v is the number                                          *)
(*   t = "str"  : v is the string as a sequence of one-character strings   *)
(*   t = "null" : None (v = 0)                                             *)
(*   t = "list" : v is the sequence of the items                           *)
(*   t = "dict" : v is the sequence of [k, v] entries in stored (insertion)*)
(*                order, k a string (sequence of characters), keys distinct*)
(* id is the identity of a container object (what `is` compares); scalars  *)
(* carry id <<>>: CPython shares small ints and interned strings, which is *)
(* what the doctests of IS (jsonfind.py:46-53) record.                     *)
(***************************************************************************)
EXTENDS Integers, Sequences, FiniteSets, TLC

VARIABLES
    root,     \* the obj argument of the call
    target,   \* the target argument of the call
    call,     \* the entry point called and its key_fn / val_fn
    gen,      \* the generator object: its stack of suspended frames
    out,      \* the Locations the generator has yielded so far
    tested,   \* the Locations of the nodes the walker has tested so far
    ret,      \* what a find_* / to_* / compare_* call returned or raised
    pc,       \* "idle" | "gen" | "done"
    heap,     \* the list objects alive, the default prev=[] lists first
    kept      \* the Locations the caller still holds: the object and its value when returned

vars == <<root, target, call, gen, out, tested, ret, pc, heap, kept>>

----------------------------------------------------------------------------
(* Bounds of the model *)

MaxNodes == 3        \* nodes of the root tree
MaxKeyPath == 1      \* steps of a target key-path
MaxCmpNodes == 2     \* nodes of each operand of a compare_* call
MaxLocLen == 2       \* steps of a Location given to a codec
MaxStrLen == 1       \* characters of a string step given to a codec

----------------------------------------------------------------------------
(* Python values *)

PyInt(n) == [t |-> "int", v |-> n, id |-> <<>>]
PyStr(s) == [t |-> "str", v |-> s, id |-> <<>>]
PyNone == [t |-> "null", v |-> 0, id |-> <<>>]
PyList(items) == [t |-> "list", v |-> items, id |-> <<>>]
PyDict(entries) == [t |-> "dict", v |-> entries, id |-> <<>>]

IsList(x) == x.t = "list"
IsDict(x) == x.t = "dict"
IsStr(x) == x.t = "str"
IsInt(x) == x.t = "int"
IsContainer(x) == IsList(x) \/ IsDict(x)

DictKeys(d) == {d.v[i].k : i \in 1..Len(d.v)}
DictGet(d, k) == d.v[CHOOSE i \in 1..Len(d.v) : d.v[i].k = k].v

(* The scalar leaves and the object keys the trees are built from *)
Scalars == {PyInt(1), PyStr(<<"b">>)}
Keys == {<<"a">>, <<"c">>}

(* the sequences over S of length up to n *)
RECURSIVE SeqsUpTo(_, _)
SeqsUpTo(S, n) ==
    IF n = 0 THEN {<<>>}
    ELSE LET R == SeqsUpTo(S, n - 1) IN R \cup {Append(r, x) : r \in R, x \in S}

RECURSIVE SeqsNoRepeat(_, _)
SeqsNoRepeat(S, n) ==
    IF n = 0 THEN {<<>>}
    ELSE UNION {{<<k>> \o r : r \in SeqsNoRepeat(S \ {k}, n - 1)} : k \in S}

RECURSIVE TreesOfSize(_, _, _), ForestsOfSize(_, _, _)
(* the sequences of trees with m nodes in all *)
ForestsOfSize(m, S, K) ==
    IF m = 0 THEN {<<>>}
    ELSE UNION {{<<tr>> \o f : tr \in TreesOfSize(j, S, K), f \in ForestsOfSize(m - j, S, K)}
                : j \in 1..m}
(* the JSON values with exactly n nodes, leaves from S and keys from K *)
TreesOfSize(n, S, K) ==
    IF n = 1 THEN S \cup {PyList(<<>>), PyDict(<<>>)}
    ELSE {PyList(f) : f \in ForestsOfSize(n - 1, S, K)}
         \cup UNION {{PyDict([i \in 1..Len(f) |-> [k |-> ks[i], v |-> f[i]]])
                      : ks \in SeqsNoRepeat(K, Len(f))}
                     : f \in {g \in ForestsOfSize(n - 1, S, K) : Len(g) <= Cardinality(K)}}

TreesUpTo(n, S, K) == UNION {TreesOfSize(j, S, K) : j \in 1..n}

(* json.loads builds a fresh object for every container: the container at *)
(* position path below the object named base gets identity base \o path.  *)
RECURSIVE Label(_, _)
Label(x, id) ==
    IF IsList(x)
    THEN [x EXCEPT !.id = id, !.v = [i \in 1..Len(x.v) |-> Label(x.v[i], id \o <<i>>)]]
    ELSE IF IsDict(x)
    THEN [x EXCEPT !.id = id,
                   !.v = [i \in 1..Len(x.v) |->
                            [k |-> x.v[i].k, v |-> Label(x.v[i].v, id \o <<i>>)]]]
    ELSE x

(* every node of x, x included *)
RECURSIVE Nodes(_)
Nodes(x) ==
    {x} \cup (IF IsList(x) THEN UNION {Nodes(x.v[i]) : i \in 1..Len(x.v)}
              ELSE IF IsDict(x) THEN UNION {Nodes(x.v[i].v) : i \in 1..Len(x.v)}
              ELSE {})

Roots == {Label(x, <<0>>) : x \in TreesUpTo(MaxNodes, Scalars, Keys)}
(* The targets that are not objects of the root: the one-node values and *)
(* [1], {"a": 1}, ["b", 1] and {"c": 1, "a": 1}, each a fresh object     *)
ExtraTargets ==
    {PyList(<<PyInt(1)>>),
     PyDict(<<[k |-> <<"a">>, v |-> PyInt(1)]>>),
     PyList(<<PyStr(<<"b">>), PyInt(1)>>),
     PyDict(<<[k |-> <<"c">>, v |-> PyInt(1)], [k |-> <<"a">>, v |-> PyInt(1)]>>)}

FreshTargets == {Label(x, <<1>>) : x \in TreesOfSize(1, Scalars, Keys) \cup ExtraTargets}

----------------------------------------------------------------------------
(* Comparator library *)

(* a == b on JSON values: lists item by item in order, dicts by key set   *)
(* and value per key whatever the stored order, scalars by type and value *)
RECURSIVE EQ(_, _)
EQ(a, b) ==
    IF IsList(a) /\ IsList(b)
    THEN Len(a.v) = Len(b.v) /\ \A i \in 1..Len(a.v) : EQ(a.v[i], b.v[i])
    ELSE IF IsDict(a) /\ IsDict(b)
    THEN DictKeys(a) = DictKeys(b)
         /\ \A k \in DictKeys(a) : EQ(DictGet(a, k), DictGet(b, k))
    ELSE IF IsContainer(a) \/ IsContainer(b) THEN FALSE
    ELSE a.t = b.t /\ a.v = b.v

(* a is b *)
IS(a, b) ==
    IF IsContainer(a) \/ IsContainer(b)
    THEN a.t = b.t /\ a.id = b.id
    ELSE a.t = b.t /\ a.v = b.v

(* a in b, for the operand kinds of the model; a TypeError is the None   *)
(* result of the try blocks of IN1 and IN2                                *)
IsSubstring(s, u) ==
    \E i \in 0..(Len(u) - Len(s)) : SubSeq(u, i + 1, i + Len(s)) = s

PyIn(a, b) ==
    IF IsList(b) THEN \E i \in 1..Len(b.v) : IS(b.v[i], a) \/ EQ(b.v[i], a)
    ELSE IF IsDict(b) THEN IsStr(a) /\ a.v \in DictKeys(b)
    ELSE IF IsStr(b) THEN IsStr(a) /\ IsSubstring(a.v, b.v)
    ELSE FALSE

IN1(a, b) == PyIn(a, b)

IN2(a, b) == PyIn(b, a)

(* key_fn / val_fn are passed by name *)
Apply(fn, a, b) ==
    CASE fn = "EQ" -> EQ(a, b)
      [] fn = "IS" -> IS(a, b)
      [] fn = "IN1" -> IN1(a, b)
      [] fn = "IN2" -> IN2(a, b)

(* compare_subset: the loops of the code, index by index.                 *)
(*   SubsetAny   : any(compare_subset(ia, ib) for ia in a), from item j   *)
(*   SubsetItems : for ib in b: if not any(...): return False, from item i*)
(*   SubsetFlag  : the flag loop over the entries of a whose key key_fn   *)
(*                 accepts for kb, from entry j                           *)
(*   SubsetPairs : for kb, vb in b.items(): ..., from entry i             *)
RECURSIVE compare_subset(_, _, _, _), SubsetAny(_, _, _, _, _),
          SubsetItems(_, _, _, _, _), SubsetFlag(_, _, _, _, _),
          SubsetPairs(_, _, _, _, _)
SubsetAny(a, ib, j, key_fn, val_fn) ==
    IF j > Len(a.v) THEN FALSE
    ELSE IF compare_subset(a.v[j], ib, key_fn, val_fn) THEN TRUE
    ELSE SubsetAny(a, ib, j + 1, key_fn, val_fn)
SubsetItems(a, b, i, key_fn, val_fn) ==
    IF i > Len(b.v) THEN TRUE
    ELSE IF ~SubsetAny(a, b.v[i], 1, key_fn, val_fn) THEN FALSE
    ELSE SubsetItems(a, b, i + 1, key_fn, val_fn)
SubsetFlag(a, eb, j, key_fn, val_fn) ==
    IF j > Len(a.v) THEN FALSE
    ELSE IF Apply(key_fn, PyStr(a.v[j].k), PyStr(eb.k))
            /\ compare_subset(a.v[j].v, eb.v, key_fn, val_fn) THEN TRUE
    ELSE SubsetFlag(a, eb, j + 1, key_fn, val_fn)
SubsetPairs(a, b, i, key_fn, val_fn) ==
    IF i > Len(b.v) THEN TRUE
    ELSE IF ~SubsetFlag(a, b.v[i], 1, key_fn, val_fn) THEN FALSE
    ELSE SubsetPairs(a, b, i + 1, key_fn, val_fn)
(* compare_subset answering False outright for a container against a  *)
(* value of another kind                                               *)
compare_subset_strict(a, b, key_fn, val_fn) ==
    IF IsList(b) /\ IsList(a) THEN SubsetItems(a, b, 1, key_fn, val_fn)
    ELSE IF IsDict(b) /\ IsDict(a) THEN SubsetPairs(a, b, 1, key_fn, val_fn)
    ELSE IF IsContainer(a) \/ IsContainer(b) THEN FALSE
    ELSE Apply(val_fn, a, b)
compare_subset(a, b, key_fn, val_fn) ==
    IF IsList(b) /\ IsList(a) THEN SubsetItems(a, b, 1, key_fn, val_fn)
    ELSE IF IsDict(b) /\ IsDict(a) THEN SubsetPairs(a, b, 1, key_fn, val_fn)
    ELSE Apply(val_fn, a, b)

(* compare_superset: the same loops with the roles of a and b exchanged *)
RECURSIVE compare_superset(_, _, _, _), SupersetAny(_, _, _, _, _),
          SupersetItems(_, _, _, _, _), SupersetFlag(_, _, _, _, _),
          SupersetPairs(_, _, _, _, _)
SupersetAny(ia, b, j, key_fn, val_fn) ==
    IF j > Len(b.v) THEN FALSE
    ELSE IF compare_superset(ia, b.v[j], key_fn, val_fn) THEN TRUE
    ELSE SupersetAny(ia, b, j + 1, key_fn, val_fn)
SupersetItems(a, b, i, key_fn, val_fn) ==
    IF i > Len(a.v) THEN TRUE
    ELSE IF ~SupersetAny(a.v[i], b, 1, key_fn, val_fn) THEN FALSE
    ELSE SupersetItems(a, b, i + 1, key_fn, val_fn)
SupersetFlag(ea, b, j, key_fn, val_fn) ==
    IF j > Len(b.v) THEN FALSE
    ELSE IF Apply(key_fn, PyStr(ea.k), PyStr(b.v[j].k))
            /\ compare_superset(ea.v, b.v[j].v, key_fn, val_fn) THEN TRUE
    ELSE SupersetFlag(ea, b, j + 1, key_fn, val_fn)
SupersetPairs(a, b, i, key_fn, val_fn) ==
    IF i > Len(a.v) THEN TRUE
    ELSE IF ~SupersetFlag(a.v[i], b, 1, key_fn, val_fn) THEN FALSE
    ELSE SupersetPairs(a, b, i + 1, key_fn, val_fn)
compare_superset(a, b, key_fn, val_fn) ==
    IF IsList(a) /\ IsList(b) THEN SupersetItems(a, b, 1, key_fn, val_fn)
    ELSE IF IsDict(a) /\ IsDict(b) THEN SupersetPairs(a, b, 1, key_fn, val_fn)
    ELSE Apply(val_fn, a, b)

compare_set(a, b, key_fn, val_fn) ==
    compare_subset(a, b, key_fn, val_fn) /\ compare_superset(a, b, key_fn, val_fn)

----------------------------------------------------------------------------
(* class JsonFind: the walkers *)

(* get_children with enumerate(obj, 1): the indices start at 1 *)
get_children_from1(obj) ==
    IF IsDict(obj) THEN [i \in 1..Len(obj.v) |-> <<PyStr(obj.v[i].k), obj.v[i].v>>]
    ELSE IF IsList(obj) THEN [i \in 1..Len(obj.v) |-> <<PyInt(i), obj.v[i]>>]
    ELSE <<>>

(* get_children walking the children last to first *)
get_children_reversed(obj) ==
    IF IsDict(obj)
    THEN [i \in 1..Len(obj.v) |->
            <<PyStr(obj.v[Len(obj.v) + 1 - i].k), obj.v[Len(obj.v) + 1 - i].v>>]
    ELSE IF IsList(obj)
    THEN [i \in 1..Len(obj.v) |-> <<PyInt(Len(obj.v) - i), obj.v[Len(obj.v) + 1 - i]>>]
    ELSE <<>>

(* the (k, v) pairs of obj.items() in stored order, of enumerate(obj), or [] *)
get_children(obj) ==
    IF IsDict(obj) THEN [i \in 1..Len(obj.v) |-> <<PyStr(obj.v[i].k), obj.v[i].v>>]
    ELSE IF IsList(obj) THEN [i \in 1..Len(obj.v) |-> <<PyInt(i - 1), obj.v[i]>>]
    ELSE <<>>

(* obj.items() >= target.items(): every (key, value) of target is an entry *)
(* of obj; all(x in obj for x in target) for two lists                     *)
issubset(obj, tgt) ==
    IF IsDict(tgt) /\ IsDict(obj)
    THEN \A i \in 1..Len(tgt.v) :
            /\ tgt.v[i].k \in DictKeys(obj)
            /\ EQ(DictGet(obj, tgt.v[i].k), tgt.v[i].v)
    ELSE IF IsList(tgt) /\ IsList(obj)
    THEN \A i \in 1..Len(tgt.v) : PyIn(tgt.v[i], obj)
    ELSE FALSE

(* prev[-len(target):]: the last n items of prev, all of prev when n is 0 *)
(* (prev[-0:] is prev[0:]) or when prev is shorter than n                 *)
SliceLast(prev, n) ==
    IF n = 0 \/ n >= Len(prev) THEN prev
    ELSE SubSeq(prev, Len(prev) - n + 1, Len(prev))

(* the test each filter_* makes first on obj *)
Matches(c, obj, tgt, prev) ==
    CASE c.fn \in {"filter_eq", "find_eq"} -> EQ(obj, tgt)
      [] c.fn \in {"filter_is", "find_is"} -> IS(obj, tgt)
      [] c.fn \in {"filter_subset", "find_subset"} -> issubset(obj, tgt)
      [] c.fn = "filter_compare" -> compare_set(obj, tgt, c.key_fn, c.val_fn)
      [] c.fn = "filter_compare_subset" -> compare_subset(obj, tgt, c.key_fn, c.val_fn)
      [] c.fn = "filter_compare_superset" -> compare_superset(obj, tgt, c.key_fn, c.val_fn)
      [] c.fn \in {"filter_key", "find_key"} ->
            EQ(PyList(SliceLast(prev, Len(tgt.v))), tgt)

(* A generator object is the stack of its suspended frames, outermost     *)
(* first. A frame holds its obj and prev arguments, where it stands       *)
(*   st = "test"    : not started                                         *)
(*   st = "loop"    : in `for k, v in get_children(obj)`, at child i,     *)
(*                    the frame above (if any) being the walk of child i  *)
(*   st = "yielded" : suspended at `yield []`                             *)
Frame(obj, prev) == [obj |-> obj, prev |-> prev, st |-> "test", i |-> 0]

NewGen(obj, prev) == <<Frame(obj, prev)>>

(* the value frame j hands up: [] from the frame that matched, and        *)
(* [k, *chld] from each frame that is looping over the child walk         *)
RECURSIVE YieldFrom(_, _)
YieldFrom(stack, j) ==
    IF j >= Len(stack) THEN <<>>
    ELSE <<get_children(stack[j].obj)[stack[j].i][1]>> \o YieldFrom(stack, j + 1)

(* `return` in the top frame: its walk is exhausted, the caller's for     *)
(* loop takes the next child                                              *)
Return(stack) ==
    LET n == Len(stack) IN
    IF n = 1 THEN <<>>
    ELSE [SubSeq(stack, 1, n - 1) EXCEPT ![n - 1].i = @ + 1]

(* a `return` that ends the whole walk after the first match *)
AfterYieldStop(stack) == <<>>

(* no `return` after `yield []`: the frame goes on into its children *)
AfterYieldDescend(stack) ==
    [stack EXCEPT ![Len(stack)].st = "loop", ![Len(stack)].i = 1]

(* what the frame does when resumed after its `yield []` *)
AfterYield(stack) == Return(stack)

(* the prev argument handed down without the step k *)
ChildPrevSame(prev, k) == prev

(* [*prev, k]: the prev argument of the walk of child k (used by filter_key) *)
ChildPrev(prev, k) == Append(prev, k)

(* One step of the running generator. ev: "run" (goes on), "yield" (val   *)
(* is handed to the consumer), "stop" (StopIteration). seen collects the  *)
(* Locations of the nodes tested.                                         *)
GenStep(c, tgt, g) ==
    LET n == Len(g.stack)
        f == g.stack[n]
        ch == get_children(f.obj)
    IN  IF n = 0 THEN [g EXCEPT !.ev = "stop"]
        ELSE CASE f.st = "test" ->
                    IF Matches(c, f.obj, tgt, f.prev)
                    THEN [g EXCEPT !.stack[n].st = "yielded",
                                   !.seen = Append(@, YieldFrom(g.stack, 1)),
                                   !.ev = "yield",
                                   !.val = YieldFrom(g.stack, 1)]
                    ELSE [g EXCEPT !.stack[n].st = "loop",
                                   !.stack[n].i = 1,
                                   !.seen = Append(@, YieldFrom(g.stack, 1))]
               [] f.st = "yielded" -> [g EXCEPT !.stack = AfterYield(g.stack)]
               [] f.st = "loop" ->
                    IF f.i <= Len(ch)
                    THEN [g EXCEPT !.stack =
                            Append(@, Frame(ch[f.i][2], ChildPrev(f.prev, ch[f.i][1])))]
                    ELSE [g EXCEPT !.stack = Return(g.stack)]

RECURSIVE GenRun(_, _, _)
GenRun(c, tgt, g) ==
    IF g.ev # "run" THEN g ELSE GenRun(c, tgt, GenStep(c, tgt, g))

(* next(gen): run the generator to its next yield or to its end *)
GenNext(c, tgt, stack) ==
    GenRun(c, tgt, [stack |-> stack, seen |-> <<>>, ev |-> "run", val |-> <<>>])

----------------------------------------------------------------------------
(* The calls *)

Fns == {"EQ", "IS"}

ValueWalkers ==
    {[fn |-> f, key_fn |-> "-", val_fn |-> "-"]
        : f \in {"filter_eq", "filter_is", "filter_subset"}}
    \cup {[fn |-> f, key_fn |-> k, val_fn |-> k]
        : f \in {"filter_compare", "filter_compare_subset", "filter_compare_superset"},
          k \in Fns}

KeyWalker == [fn |-> "filter_key", key_fn |-> "-", val_fn |-> "-"]

Finders == {"find_eq", "find_is", "find_subset", "find_superset", "find_key"}

NoCall == [fn |-> "-", key_fn |-> "-", val_fn |-> "-"]
NoRet == [k |-> "-", v |-> <<>>]

(* the document of tests/test_1.py: {"a": "b", "c": {"d": "e"}, "f": [1, 2, 3]} *)
TestObj ==
    Label(PyDict(<<[k |-> <<"a">>, v |-> PyStr(<<"b">>)],
                   [k |-> <<"c">>, v |-> PyDict(<<[k |-> <<"d">>, v |-> PyStr(<<"e">>)]>>)],
                   [k |-> <<"f">>, v |-> PyList(<<PyInt(1), PyInt(2), PyInt(3)>>)]>>),
          <<0>>)
TestTargets ==
    {Label(PyDict(<<[k |-> <<"d">>, v |-> PyStr(<<"e">>)]>>), <<1>>)}
TestKeyPaths ==
    {Label(PyList(<<PyStr(<<"d">>)>>), <<1>>),
     Label(PyList(<<PyStr(<<"c">>), PyStr(<<"d">>)>>), <<1>>),
     Label(PyList(<<PyStr(<<"f">>), PyStr(<<"d">>)>>), <<1>>)}

(* the steps key-paths are made of: the keys of the trees and two indices *)
Steps == {PyStr(k) : k \in Keys} \cup {PyInt(0), PyInt(1)}

KeyPaths == {Label(PyList(s), <<1>>) : s \in SeqsUpTo(Steps, MaxKeyPath)} \cup TestKeyPaths

(* def filter_key(cls, obj, target, prev=[]) and def find_key(cls, obj,    *)
(* target, prev=[]): each default is one list object, built when the class *)
(* body runs and bound again by every call that omits prev                 *)
DefaultPrev == <<>>
FilterKeyPrev == 1
FindKeyPrev == 2
ClassHeap == <<DefaultPrev, DefaultPrev>>

ValueTargets(obj) == FreshTargets \cup Nodes(obj) \cup TestTargets

Init ==
    /\ root \in Roots \cup {TestObj}
    /\ target \in ValueTargets(root) \cup KeyPaths
    /\ call = NoCall
    /\ gen = <<>>
    /\ out = <<>>
    /\ tested = <<>>
    /\ ret = NoRet
    /\ pc = "idle"
    /\ heap = ClassHeap
    /\ kept = <<>>

(* gen = JsonFind.filter_xxx(root, target): nothing runs until next(gen) *)
CallFilter(c) ==
    /\ pc = "idle"
    /\ IF c = KeyWalker THEN target \in KeyPaths ELSE target \in ValueTargets(root)
    /\ call' = c
    /\ gen' = NewGen(root, <<>>)
    /\ pc' = "gen"
    /\ UNCHANGED <<root, target, out, tested, ret, heap, kept>>

(* next(gen), as list(gen) or a for loop does until StopIteration *)
NextItem ==
    /\ pc = "gen"
    /\ LET g == GenNext(call, target, gen) IN
        /\ gen' = g.stack
        /\ tested' = tested \o g.seen
        /\ IF g.ev = "yield"
           THEN out' = Append(out, g.val) /\ pc' = "gen"
           ELSE out' = out /\ pc' = "done"
    /\ UNCHANGED <<root, target, call, ret, heap, kept>>

(* find_xxx(root, target): next(cls.filter_xxx(obj, target), None).       *)
(* find_superset names cls.filter_superset, which class JsonFind does not *)
(* define: evaluating it raises AttributeError.                           *)
find(fn) ==
    IF fn = "find_superset" THEN [k |-> "raise", v |-> <<"AttributeError">>, seen |-> <<>>, stack |-> <<>>]
    ELSE LET g == GenNext([fn |-> fn, key_fn |-> "-", val_fn |-> "-"], target,
                          NewGen(root, <<>>))
         IN  IF g.ev = "yield"
             THEN [k |-> "value", v |-> g.val, seen |-> g.seen, stack |-> g.stack]
             ELSE [k |-> "None", v |-> <<>>, seen |-> g.seen, stack |-> g.stack]

CallFind(fn) ==
    /\ pc = "idle"
    /\ IF fn = "find_key" THEN target \in KeyPaths ELSE target \in ValueTargets(root)
    /\ LET r == find(fn) IN
        /\ ret' = [k |-> r.k, v |-> r.v]
        /\ tested' = r.seen
        /\ gen' = r.stack
    /\ call' = [fn |-> fn, key_fn |-> "-", val_fn |-> "-"]
    /\ pc' = "done"
    /\ UNCHANGED <<root, target, out, heap, kept>>

Next ==
    \/ \E c \in ValueWalkers \cup {KeyWalker} : CallFilter(c)
    \/ NextItem
    \/ \E fn \in Finders : CallFind(fn)

Spec == Init /\ [][Next]_vars

----------------------------------------------------------------------------
(* What the properties below are stated with *)

Range(s) == {s[i] : i \in 1..Len(s)}

(* every Location of x: the paths from x to its nodes, <<>> for x itself *)
RECURSIVE Locs(_)
Locs(x) ==
    {<<>>} \cup
    (IF IsList(x)
     THEN UNION {{<<PyInt(i - 1)>> \o l : l \in Locs(x.v[i])} : i \in 1..Len(x.v)}
     ELSE IF IsDict(x)
     THEN UNION {{<<PyStr(x.v[i].k)>> \o l : l \in Locs(x.v[i].v)} : i \in 1..Len(x.v)}
     ELSE {})

(* following L from x: a dict lookup for a string step, a list index for *)
(* an integer step; ok is FALSE when a step raises                       *)
RECURSIVE Resolve(_, _)
Resolve(x, L) ==
    IF L = <<>> THEN [ok |-> TRUE, node |-> x]
    ELSE LET s == Head(L) IN
         IF IsStr(s) /\ IsDict(x) /\ s.v \in DictKeys(x)
         THEN Resolve(DictGet(x, s.v), Tail(L))
         ELSE IF IsInt(s) /\ IsList(x) /\ s.v \in 0..(Len(x.v) - 1)
         THEN Resolve(x.v[s.v + 1], Tail(L))
         ELSE [ok |-> FALSE, node |-> PyNone]

At(x, L) == Resolve(x, L).node

IsPrefix(p, l) == Len(p) <= Len(l) /\ SubSeq(l, 1, Len(p)) = p
IsProperPrefix(p, l) == Len(p) < Len(l) /\ SubSeq(l, 1, Len(p)) = p
ProperPrefixes(l) == {SubSeq(l, 1, n) : n \in 0..(Len(l) - 1)}

(* the positions of the steps of L among the children of the nodes of x: *)
(* the place of a key in the stored order of its dict, index + 1 in a list*)
RECURSIVE Positions(_, _)
Positions(x, L) ==
    IF L = <<>> THEN <<>>
    ELSE LET s == Head(L)
             i == IF IsDict(x) THEN CHOOSE j \in 1..Len(x.v) : x.v[j].k = s.v
                  ELSE s.v + 1
             child == IF IsDict(x) THEN x.v[i].v ELSE x.v[i]
         IN  <<i>> \o Positions(child, Tail(L))

(* p comes strictly before q in document order: p is a proper prefix of q,*)
(* or at the first place they differ p takes the earlier child            *)
DocBefore(p, q) ==
    \/ IsProperPrefix(p, q)
    \/ \E n \in 1..Len(p) :
          /\ n <= Len(q)
          /\ SubSeq(p, 1, n - 1) = SubSeq(q, 1, n - 1)
          /\ p[n] < q[n]

InDocOrder(x, ls) ==
    \A i, j \in 1..Len(ls) :
        i < j => DocBefore(Positions(x, ls[i]), Positions(x, ls[j]))

(* list(gen): the Locations a walker yields until it is exhausted *)
RECURSIVE Drain(_, _, _, _)
Drain(c, tgt, stack, acc) ==
    LET g == GenNext(c, tgt, stack) IN
    IF g.ev = "yield" THEN Drain(c, tgt, g.stack, Append(acc, g.val)) ELSE acc

ValueWalkerNames ==
    {"filter_eq", "filter_is", "filter_subset", "filter_compare",
     "filter_compare_subset", "filter_compare_superset"}

FirstMatchWalkerNames == ValueWalkerNames \ {"filter_is"}

MatchesAt(L) == Matches(call, At(root, L), target, <<>>)

(* the Locations whose node matches while no proper ancestor matches *)
TopMatches ==
    {L \in Locs(root) : MatchesAt(L) /\ \A P \in ProperPrefixes(L) : ~MatchesAt(P)}

----------------------------------------------------------------------------
(* C1. Soundness of the walkers: every Location yielded by filter_eq,      *)
(* filter_is, filter_subset, filter_compare, filter_compare_subset and     *)
(* filter_compare_superset resolves from the root without error, to a node *)
(* for which the walker's match test against the target is true.           *)
C1_Soundness ==
    call.fn \in ValueWalkerNames =>
        \A i \in 1..Len(out) :
            /\ Resolve(root, out[i]).ok
            /\ MatchesAt(out[i])

C1_Witness ==
    /\ call.fn = "filter_compare_superset"
    /\ Len(out) = 2
    /\ out[2][1] = PyInt(1)

(* C2. Completeness of the equality walk: when the target is a node of the *)
(* root, filter_eq yields the Location of that node, and of every node     *)
(* equal to it.                                                            *)
C2_EqComplete ==
    (pc = "done" /\ call.fn = "filter_eq" /\ target \in Nodes(root)) =>
        \A L \in Locs(root) :
            (At(root, L) = target \/ EQ(At(root, L), target)) => L \in Range(out)

C2_Witness ==
    /\ pc = "done"
    /\ call.fn = "filter_eq"
    /\ IsContainer(target)
    /\ target \in Nodes(root)
    /\ Len(out) = 2

(* C3. First match wins per subtree: when filter_eq, filter_subset,        *)
(* filter_compare, filter_compare_subset or filter_compare_superset is     *)
(* exhausted, no yielded Location is a proper prefix of another, and the   *)
(* yielded Locations are exactly those whose node matches while no proper  *)
(* ancestor matches.                                                       *)
C3_FirstMatchWins ==
    (pc = "done" /\ call.fn \in FirstMatchWalkerNames) =>
        /\ \A i, j \in 1..Len(out) : ~IsProperPrefix(out[i], out[j])
        /\ Range(out) = TopMatches

(* a matching node lies inside a node that was yielded *)
C3_Witness ==
    /\ pc = "done"
    /\ call.fn = "filter_compare_subset"
    /\ \E i \in 1..Len(out) : \E L \in Locs(root) :
          IsProperPrefix(out[i], L) /\ MatchesAt(L)

(* C4. Deterministic pre-order: the nodes are tested, and the Locations    *)
(* yielded, in document order (depth first, a node before its children,    *)
(* the children of a dict in stored key order and of a list in index       *)
(* order); a node is tested only after its parent; what is yielded is what *)
(* was just tested; a second walk of the same root with the same target    *)
(* yields the same sequence.                                               *)
C4_PreOrder ==
    /\ InDocOrder(root, tested)
    /\ InDocOrder(root, out)
    /\ \A j \in 1..Len(tested) :
          tested[j] # <<>> =>
              \E i \in 1..(j - 1) : tested[i] = SubSeq(tested[j], 1, Len(tested[j]) - 1)
    /\ (call.fn \in ValueWalkerNames \cup {"filter_key"} /\ out # <<>> /\ pc = "gen")
          => out[Len(out)] = tested[Len(tested)]
    /\ (call.fn \in ValueWalkerNames \cup {"filter_key"} /\ pc = "done")
          => out = Drain(call, target, NewGen(root, <<>>), <<>>)

(* two matches under a dict whose stored key order is not the sorted one *)
C4_Witness ==
    /\ pc = "done"
    /\ Len(out) = 2
    /\ out[1] = <<PyStr(<<"c">>)>>
    /\ out[2] = <<PyStr(<<"a">>)>>

(* C5. Key-path walk: filter_key(root, K) yields exactly the Locations of  *)
(* the tree whose last len(K) steps are K while no proper prefix of them   *)
(* ends with K; for the empty K only the root []; find_key returns None    *)
(* exactly when no Location of the tree ends with K.                       *)
EndsWith(L, K) ==
    Len(K) <= Len(L) /\ SubSeq(L, Len(L) - Len(K) + 1, Len(L)) = K

KeyMatches ==
    {L \in Locs(root) :
        /\ EndsWith(L, target.v)
        /\ \A P \in ProperPrefixes(L) : ~EndsWith(P, target.v)}

C5_KeyWalk ==
    /\ (pc = "done" /\ call.fn = "filter_key") =>
          /\ Range(out) = KeyMatches
          /\ Len(out) = Cardinality(KeyMatches)
          /\ (target.v = <<>> => out = << <<>> >>)
    /\ (pc = "done" /\ call.fn = "find_key") =>
          /\ (ret.k = "None") = (KeyMatches = {})
          /\ ret.k = "value" => ret.v \in KeyMatches

C5_Witness ==
    /\ pc = "done"
    /\ call.fn = "filter_key"
    /\ Len(target.v) = 1
    /\ Len(out) = 1
    /\ Len(out[1]) = 2

----------------------------------------------------------------------------
(* The comparator library called on its own: compare_subset(a, b, key_fn, *)
(* val_fn) with a in root and b in target                                 *)

CmpScalars == {PyInt(1), PyStr(<<"a">>)}
CmpKeys == {<<"a">>, <<"a", "b">>}
CmpFns == {"EQ", "IS", "IN1", "IN2"}

CmpA == {Label(x, <<0>>) : x \in TreesUpTo(MaxCmpNodes, CmpScalars, CmpKeys)}
CmpB == {Label(x, <<1>>) : x \in TreesUpTo(MaxCmpNodes, CmpScalars, CmpKeys)}

InitCmp ==
    /\ root \in CmpA
    /\ target \in CmpB \cup {root}
    /\ call = NoCall
    /\ gen = <<>>
    /\ out = <<>>
    /\ tested = <<>>
    /\ ret = NoRet
    /\ pc = "idle"
    /\ heap = ClassHeap
    /\ kept = <<>>

CallCompareSubset(key_fn, val_fn) ==
    /\ pc = "idle"
    /\ call' = [fn |-> "compare_subset", key_fn |-> key_fn, val_fn |-> val_fn]
    /\ ret' = [k |-> "value", v |-> <<compare_subset(root, target, key_fn, val_fn)>>]
    /\ pc' = "done"
    /\ UNCHANGED <<root, target, gen, out, tested, heap, kept>>

NextCmp == \E key_fn \in CmpFns, val_fn \in CmpFns : CallCompareSubset(key_fn, val_fn)

SpecCmp == InitCmp /\ [][NextCmp]_vars

----------------------------------------------------------------------------
(* The path codecs: to_jsonpath(val) and to_jsonpointer(val), val in root *)

(* str.replace(old, new) for a one-character old *)
RECURSIVE Replace(_, _, _)
Replace(s, old, new) ==
    IF s = <<>> THEN <<>>
    ELSE (IF Head(s) = old THEN new ELSE <<Head(s)>>) \o Replace(Tail(s), old, new)

DigitChar(d) == <<"0", "1", "2", "3", "4", "5", "6", "7", "8", "9">>[d + 1]

(* str(n) / "{}".format(n) of a non-negative int: its decimal digits *)
RECURSIVE Decimal(_)
Decimal(n) ==
    IF n < 10 THEN <<DigitChar(n)>> ELSE Decimal(n \div 10) \o <<DigitChar(n % 10)>>

(* str(x) of a step that is not a string *)
PyStrOf(x) == IF IsInt(x) THEN Decimal(x.v) ELSE <<"N", "o", "n", "e">>

(* a strip that drops one leading "." only *)
LStripOneDot(s) == IF s # <<>> /\ Head(s) = "." THEN Tail(s) ELSE s

(* s.lstrip("."): s without its leading "." characters *)
RECURSIVE LStripDots(_)
LStripDots(s) ==
    IF s # <<>> /\ Head(s) = "." THEN LStripDots(Tail(s)) ELSE s

(* "/".join(parts) *)
RECURSIVE Join(_, _)
Join(sep, parts) ==
    IF parts = <<>> THEN <<>>
    ELSE IF Len(parts) = 1 THEN parts[1]
    ELSE parts[1] \o sep \o Join(sep, Tail(parts))

(* the loop of to_jsonpath from step i with res so far *)
RECURSIVE JsonPathLoop(_, _, _)
JsonPathLoop(val, i, res) ==
    IF i > Len(val) THEN [k |-> "value", v |-> LStripDots(res)]
    ELSE IF IsStr(val[i]) THEN JsonPathLoop(val, i + 1, res \o <<".">> \o val[i].v)
    ELSE IF IsInt(val[i])
    THEN JsonPathLoop(val, i + 1, res \o <<"[">> \o Decimal(val[i].v) \o <<"]">>)
    ELSE [k |-> "raise", v |-> <<"Exception">>]

to_jsonpath(val) == JsonPathLoop(val, 1, <<>>)

(* escape_jsonptr replacing "/" before "~" *)
escape_jsonptr_slash_first(s) ==
    IF ~IsStr(s) THEN PyStrOf(s)
    ELSE Replace(Replace(s.v, "/", <<"~", "1">>), "~", <<"~", "0">>)

escape_jsonptr(s) ==
    IF ~IsStr(s) THEN PyStrOf(s)
    ELSE Replace(Replace(s.v, "~", <<"~", "0">>), "/", <<"~", "1">>)

to_jsonpointer(val) ==
    <<"/">> \o Join(<<"/">>, [i \in 1..Len(val) |-> escape_jsonptr(val[i])])

CodecChars == {"~", "/", ".", "a"}
CodecInts == {0, 7, 12}

CodecSteps ==
    {PyStr(s) : s \in SeqsUpTo(CodecChars, MaxStrLen)}
    \cup {PyInt(n) : n \in CodecInts} \cup {PyNone}

InitCodec ==
    /\ root \in SeqsUpTo(CodecSteps, MaxLocLen)
    /\ target = PyNone
    /\ call = NoCall
    /\ gen = <<>>
    /\ out = <<>>
    /\ tested = <<>>
    /\ ret = NoRet
    /\ pc = "idle"
    /\ heap = ClassHeap
    /\ kept = <<>>

CallToJsonPointer ==
    /\ pc = "idle"
    /\ call' = [fn |-> "to_jsonpointer", key_fn |-> "-", val_fn |-> "-"]
    /\ ret' = [k |-> "value", v |-> to_jsonpointer(root)]
    /\ pc' = "done"
    /\ UNCHANGED <<root, target, gen, out, tested, heap, kept>>

CallToJsonPath ==
    /\ pc = "idle"
    /\ call' = [fn |-> "to_jsonpath", key_fn |-> "-", val_fn |-> "-"]
    /\ ret' = to_jsonpath(root)
    /\ pc' = "done"
    /\ UNCHANGED <<root, target, gen, out, tested, heap, kept>>

NextCodec == CallToJsonPointer \/ CallToJsonPath

SpecCodec == InitCodec /\ [][NextCodec]_vars

IsStrOrInt(x) == IsStr(x) \/ IsInt(x)
AllStr(L) == \A i \in 1..Len(L) : IsStr(L[i])
AllStrOrInt(L) == \A i \in 1..Len(L) : IsStrOrInt(L[i])

RECURSIVE Flatten(_)
Flatten(parts) == IF parts = <<>> THEN <<>> ELSE Head(parts) \o Flatten(Tail(parts))

Count(s, c) == Cardinality({i \in 1..Len(s) : s[i] = c})

(* the decimal digits of the integers the codec is given *)
DecimalOf(n) ==
    CASE n = 0 -> <<"0">>
      [] n = 7 -> <<"7">>
      [] n = 12 -> <<"1", "2">>

(* the escape of one character of a key, all characters at once *)
EscapedChar(c) ==
    IF c = "~" THEN <<"~", "0">> ELSE IF c = "/" THEN <<"~", "1">> ELSE <<c>>

EncodedStep(x) ==
    IF IsInt(x) THEN DecimalOf(x.v)
    ELSE Flatten([i \in 1..Len(x.v) |-> EscapedChar(x.v[i])])

(* C7. Pointer encoding: to_jsonpointer(L) is "/" followed by the encoded *)
(* steps joined with "/", an integer step as its decimal digits, a string *)
(* step with every "~" as "~0" and every "/" as "~1" (never "~01"); the   *)
(* empty Location gives "/"; no encoded step holds a raw "/".             *)
C7_Pointer ==
    (pc = "done" /\ call.fn = "to_jsonpointer" /\ AllStrOrInt(root)) =>
        /\ ret.v = <<"/">> \o Flatten([i \in 1..Len(root) |->
                        (IF i > 1 THEN <<"/">> ELSE <<>>) \o EncodedStep(root[i])])
        /\ root = <<>> => ret.v = <<"/">>
        /\ Count(ret.v, "/") = IF root = <<>> THEN 1 ELSE Len(root)

(* a key "/" after an integer step *)
C7_Witness ==
    /\ pc = "done"
    /\ call.fn = "to_jsonpointer"
    /\ root = <<PyInt(12), PyStr(<<"/">>)>>
    /\ ret.v = <<"/", "1", "2", "/", "~", "1">>

(* The JSON Pointer reading of a pointer string: "" is the root;         *)
(* otherwise the leading "/" is dropped, the rest split on "/", and in   *)
(* each token "~1" becomes "/" and then "~0" becomes "~".                *)
RECURSIVE SplitOn(_, _, _)
SplitOn(s, sep, cur) ==
    IF s = <<>> THEN <<cur>>
    ELSE IF Head(s) = sep THEN <<cur>> \o SplitOn(Tail(s), sep, <<>>)
    ELSE SplitOn(Tail(s), sep, Append(cur, Head(s)))

RECURSIVE ReplacePair(_, _, _, _)
ReplacePair(s, c1, c2, new) ==
    IF Len(s) >= 2 /\ s[1] = c1 /\ s[2] = c2
    THEN <<new>> \o ReplacePair(SubSeq(s, 3, Len(s)), c1, c2, new)
    ELSE IF s = <<>> THEN <<>>
    ELSE <<Head(s)>> \o ReplacePair(Tail(s), c1, c2, new)

Unescape(tok) == ReplacePair(ReplacePair(tok, "~", "1", "/"), "~", "0", "~")

DecodePointer(p) ==
    IF p = <<>> THEN <<>>
    ELSE LET toks == SplitOn(Tail(p), "/", <<>>)
         IN  [i \in 1..Len(toks) |-> PyStr(Unescape(toks[i]))]

(* C8. Pointer round-trip: for every Location whose steps are strings,   *)
(* the empty Location included, decoding to_jsonpointer(L) by the JSON   *)
(* Pointer rule gives back L.                                            *)
C8_RoundTrip ==
    (pc = "done" /\ call.fn = "to_jsonpointer" /\ AllStr(root)) =>
        DecodePointer(ret.v) = root

(* the same for the Locations of one step or more (what the code does keep) *)
C8_RoundTripNonEmpty ==
    (pc = "done" /\ call.fn = "to_jsonpointer" /\ AllStr(root) /\ root # <<>>) =>
        DecodePointer(ret.v) = root

(* C9. Dot-path encoding: for a Location of string and integer steps     *)
(* to_jsonpath returns the concatenation of "." + key for a string step  *)
(* and "[N]" for an integer step, without the leading "." characters of  *)
(* the whole; with any other step it raises and returns no string.       *)
DotPathConcat(L) ==
    Flatten([i \in 1..Len(L) |->
                IF IsStr(L[i]) THEN <<".">> \o L[i].v
                ELSE <<"[">> \o DecimalOf(L[i].v) \o <<"]">>])

C9_DotPath ==
    (pc = "done" /\ call.fn = "to_jsonpath") =>
        IF AllStrOrInt(root)
        THEN /\ ret.k = "value"
             /\ \E n \in 0..Len(DotPathConcat(root)) :
                   DotPathConcat(root) = [i \in 1..n |-> "."] \o ret.v
             /\ (ret.v = <<>> \/ ret.v[1] # ".")
        ELSE ret = [k |-> "raise", v |-> <<"Exception">>]

(* ["a", 0] gives "a[0]" *)
C9_Witness ==
    /\ pc = "done"
    /\ call.fn = "to_jsonpath"
    /\ root = <<PyStr(<<"a">>), PyInt(0)>>
    /\ ret = [k |-> "value", v |-> <<"a", "[", "0", "]">>]

----------------------------------------------------------------------------
(* the walker each find_* stands for *)
WalkerOf(fn) ==
    CASE fn = "find_eq" -> [fn |-> "filter_eq", key_fn |-> "-", val_fn |-> "-"]
      [] fn = "find_is" -> [fn |-> "filter_is", key_fn |-> "-", val_fn |-> "-"]
      [] fn = "find_subset" -> [fn |-> "filter_subset", key_fn |-> "-", val_fn |-> "-"]
      [] fn = "find_superset" ->
            [fn |-> "filter_compare_superset", key_fn |-> "IS", val_fn |-> "IS"]
      [] fn = "find_key" -> KeyWalker

FirstOfWalk(fn) ==
    LET seq == Drain(WalkerOf(fn), target, NewGen(root, <<>>), <<>>) IN
    IF seq = <<>> THEN [k |-> "None", v |-> <<>>] ELSE [k |-> "value", v |-> seq[1]]

(* C10. First-match entry points: each of find_eq, find_is, find_subset,  *)
(* find_superset and find_key returns the first Location its walker would *)
(* yield for the same arguments, and None, without raising, exactly when  *)
(* the walker yields nothing.                                             *)
C10_FindFirst ==
    (pc = "done" /\ call.fn \in Finders) => ret = FirstOfWalk(call.fn)

(* the same for the four entry points whose walker exists *)
C10_FindFirstDefined ==
    (pc = "done" /\ call.fn \in Finders \ {"find_superset"}) => ret = FirstOfWalk(call.fn)

----------------------------------------------------------------------------
(* Calls one after another on the same root and target.  The lists the    *)
(* walk builds are objects on a heap and a frame holds its prev argument  *)
(* by reference, so that what one call does to a list is there for the    *)
(* next call to find.  heap[FilterKeyPrev] and heap[FindKeyPrev] are the   *)
(* default lists of filter_key and find_key, alive as long as the class.  *)

MaxCallNodes == 2    \* nodes of a document walked by calls one after another

NoPrev == 0

HasPrev(c) == c.fn \in {"filter_key", "find_key"}

(* a list display [...]: a new list object *)
Alloc(h, v) == [heap |-> Append(h, v), ref |-> Len(h) + 1]

(* prev.append(k): the walk of child k is handed the caller's own list *)
ChildPrevAppend(h, prev, k) == [heap |-> [h EXCEPT ![prev] = Append(@, k)], ref |-> prev]

(* [*prev, k] (jsonfind.py:417): a new list, prev itself is only read *)
ChildPrevRef(h, prev, k) == Alloc(h, ChildPrev(h[prev], k))

(* the generator of a call: filter_key(obj, target) binds prev to its     *)
(* default list, find_key hands its own default on to filter_key          *)
NewGenRef(c, obj) ==
    <<Frame(obj, CASE c.fn = "filter_key" -> FilterKeyPrev
                   [] c.fn = "find_key" -> FindKeyPrev
                   [] OTHER -> NoPrev)>>

(* one step of the generator, the lists of prev and the yielded Location  *)
(* being heap objects                                                     *)
GenStepRef(c, tgt, g) ==
    LET n == Len(g.stack)
        f == g.stack[n]
        ch == get_children(f.obj)
    IN  IF n = 0 THEN [g EXCEPT !.ev = "stop"]
        ELSE CASE f.st = "test" ->
                    IF Matches(c, f.obj, tgt, IF HasPrev(c) THEN g.heap[f.prev] ELSE <<>>)
                    THEN LET a == Alloc(g.heap, YieldFrom(g.stack, 1)) IN
                         [g EXCEPT !.stack[n].st = "yielded",
                                   !.heap = a.heap,
                                   !.ev = "yield",
                                   !.val = a.ref]
                    ELSE [g EXCEPT !.stack[n].st = "loop",
                                   !.stack[n].i = 1]
               [] f.st = "yielded" -> [g EXCEPT !.stack = AfterYield(g.stack)]
               [] f.st = "loop" ->
                    IF f.i <= Len(ch)
                    THEN LET a == IF HasPrev(c)
                                  THEN ChildPrevRef(g.heap, f.prev, ch[f.i][1])
                                  ELSE [heap |-> g.heap, ref |-> NoPrev]
                         IN  [g EXCEPT !.stack = Append(@, Frame(ch[f.i][2], a.ref)),
                                       !.heap = a.heap]
                    ELSE [g EXCEPT !.stack = Return(g.stack)]

RECURSIVE GenRunRef(_, _, _)
GenRunRef(c, tgt, g) ==
    IF g.ev # "run" THEN g ELSE GenRunRef(c, tgt, GenStepRef(c, tgt, g))

(* next(gen) *)
GenNextRef(c, tgt, stack, h) ==
    GenRunRef(c, tgt, [stack |-> stack, heap |-> h, ev |-> "run", val |-> NoPrev])

(* the documents and the targets of the calls: a key-path is a list, and  *)
(* so a target of the value walkers as well                               *)
(* documents in which a key-path ends at two depths, so that one walk of  *)
(* filter_key yields twice: {"a": 1, "c": {"a": 1}} and [1, [1]]          *)
RepeatDocs ==
    {Label(PyDict(<<[k |-> <<"a">>, v |-> PyInt(1)],
                    [k |-> <<"c">>, v |-> PyDict(<<[k |-> <<"a">>, v |-> PyInt(1)]>>)]>>),
           <<0>>),
     Label(PyList(<<PyInt(1), PyList(<<PyInt(1)>>)>>), <<0>>)}

CallRoots ==
    {Label(x, <<0>>) : x \in TreesUpTo(MaxCallNodes, Scalars, Keys)}
    \cup {TestObj} \cup RepeatDocs

CallWalkers ==
    {[fn |-> "filter_eq", key_fn |-> "-", val_fn |-> "-"], KeyWalker}
    \cup {[fn |-> f, key_fn |-> "IS", val_fn |-> "IS"]
            : f \in {"filter_compare", "filter_compare_subset", "filter_compare_superset"}}

InitCalls ==
    /\ root \in CallRoots
    /\ target \in KeyPaths
    /\ call = NoCall
    /\ gen = <<>>
    /\ out = <<>>
    /\ tested = <<>>
    /\ ret = NoRet
    /\ pc = "idle"
    /\ heap = ClassHeap
    /\ kept = <<>>

(* The caller lets go of the generator of the last call, consumed or not, *)
(* and of the Locations of the calls before it: the lists nothing refers  *)
(* to any more are freed.  The defaults and the Locations the last call   *)
(* returned stay.                                                         *)
Held == SelectSeq(kept, LAMBDA e : e.cur)

HeapLeft ==
    SubSeq(heap, 1, Len(ClassHeap)) \o [i \in 1..Len(Held) |-> heap[Held[i].ref]]

KeptLeft ==
    [i \in 1..Len(Held) |-> [Held[i] EXCEPT !.ref = Len(ClassHeap) + i, !.cur = FALSE]]

(* gen = JsonFind.filter_xxx(root, target), as the first call or after any *)
(* call before it, whose generator may be left partly consumed             *)
CallWalker(c) ==
    /\ call' = c
    /\ gen' = NewGenRef(c, root)
    /\ heap' = HeapLeft
    /\ kept' = KeptLeft
    /\ out' = <<>>
    /\ ret' = NoRet
    /\ pc' = "gen"
    /\ UNCHANGED <<root, target, tested>>

(* next(gen): the caller keeps the Location it is handed *)
NextLocation ==
    /\ pc = "gen"
    /\ LET g == GenNextRef(call, target, gen, heap) IN
        /\ gen' = g.stack
        /\ heap' = g.heap
        /\ IF g.ev = "yield"
           THEN /\ out' = Append(out, g.heap[g.val])
                /\ kept' = Append(kept, [ref |-> g.val, v |-> g.heap[g.val],
                                         cur |-> TRUE, by |-> call.fn])
                /\ pc' = "gen"
           ELSE /\ out' = out
                /\ kept' = kept
                /\ pc' = "done"
    /\ UNCHANGED <<root, target, call, ret, tested>>

(* find_key(root, target): next(cls.filter_key(obj, target, prev), None), *)
(* prev being the default list of find_key                                *)
CallFindKey ==
    LET c == [fn |-> "find_key", key_fn |-> "-", val_fn |-> "-"]
        g == GenNextRef(c, target, NewGenRef(c, root), HeapLeft)
    IN  /\ call' = c
        /\ gen' = g.stack
        /\ heap' = g.heap
        /\ IF g.ev = "yield"
           THEN /\ ret' = [k |-> "value", v |-> g.heap[g.val]]
                /\ kept' = Append(KeptLeft, [ref |-> g.val, v |-> g.heap[g.val],
                                             cur |-> TRUE, by |-> c.fn])
           ELSE /\ ret' = [k |-> "None", v |-> <<>>]
                /\ kept' = KeptLeft
        /\ out' = <<>>
        /\ pc' = "done"
        /\ UNCHANGED <<root, target, tested>>

NextCalls ==
    \/ \E c \in CallWalkers : CallWalker(c)
    \/ NextLocation
    \/ CallFindKey

SpecCalls == InitCalls /\ [][NextCalls]_vars

(* the steps from the root to the obj of frame j *)
PathOfFrame(stack, j) ==
    [i \in 1..(j - 1) |-> get_children(stack[i].obj)[stack[i].i][1]]

(* each suspended frame of a key walk holds a list of its own, and the    *)
(* list is the path to the frame's obj: no branch sees the steps of a     *)
(* sibling                                                                *)
NoSharedPrev ==
    HasPrev(call) =>
        \A j \in 1..Len(gen) :
            /\ heap[gen[j].prev] = PathOfFrame(gen, j)
            /\ \A i \in 1..Len(gen) : i # j => gen[i].prev # gen[j].prev

(* what the call yields when it is the first call made *)
AsFirstCall ==
    Drain(IF call.fn = "find_key" THEN KeyWalker ELSE call, target,
          NewGen(root, DefaultPrev), <<>>)

SameAsFirstCall ==
    /\ call.fn \in {c.fn : c \in CallWalkers} =>
        /\ IsPrefix(out, AsFirstCall)
        /\ pc = "done" => out = AsFirstCall
    /\ (call.fn = "find_key" /\ pc = "done") =>
        ret = IF AsFirstCall = <<>> THEN [k |-> "None", v |-> <<>>]
              ELSE [k |-> "value", v |-> AsFirstCall[1]]

LocationsKept == \A i \in 1..Len(kept) : heap[kept[i].ref] = kept[i].v

(* C11. Independence of calls: whatever walker calls were made before,    *)
(* fully or partly consumed, no step changes the root or the target, and  *)
(* at every point the default prev lists are empty as built, every        *)
(* suspended frame of a key walk holds a path list of its own, the call   *)
(* has yielded what the same call yields as the first call, and every     *)
(* Location returned before is as it was when returned.                   *)
C11_Independent ==
    /\ [][root' = root /\ target' = target]_vars
    /\ [](/\ SubSeq(heap, 1, Len(ClassHeap)) = ClassHeap
          /\ NoSharedPrev
          /\ SameAsFirstCall
          /\ LocationsKept)

(* a full filter_key call that yielded twice, made after a filter_key     *)
(* call that was left after its first Location, which the caller holds    *)
C11_Witness ==
    /\ pc = "done"
    /\ call.fn = "filter_key"
    /\ Len(out) = 2
    /\ Len(kept) = 3
    /\ ~kept[1].cur /\ kept[1].by = "filter_key"

====
